---- MODULE Spec2Model ----
(***************************************************************************)
(* Index lifecycle, CSV bulk load and maintenance utilities of main.py,    *)
(* modelled over an Elasticsearch engine holding a small set of indices.   *)
(*                                                                         *)
(* Python values are tagged records: a str is its sequence of characters,  *)
(* None is its own value, a float is mantissa / 10^scale.                  *)
(***************************************************************************)
EXTENDS Integers, Sequences, FiniteSets, TLC

VARIABLES
    es,      \* the engine: index name -> index (exists, settings, mappings, docs)
    file,    \* the CSV file on disk that load_es reads (header line and rows)
    fs,      \* the directory tree delete_tmp_files works on
    pc,      \* position of the __main__ script
    runs,    \* how many times the __main__ script has been started
    reqs,    \* requests sent to the engine by the call (or script run) in progress
    last     \* the last call: operation, arguments, how it ended, what it logged

vars == <<es, file, fs, pc, runs, reqs, last>>

(***************************************************************************)
(* Bounds of the model.                                                    *)
(***************************************************************************)
\* rows of a CSV file
MaxRows == 3
\* actions per bulk request (helpers.bulk's chunk_size, scaled down)
ChunkSize == 2
\* starts of the __main__ script
MaxRuns == 2

(***************************************************************************)
(* Python values.                                                          *)
(***************************************************************************)
PyNone == [tag |-> "None"]
PyStr(s) == [tag |-> "str", s |-> s]
PyFloat(m, e) == [tag |-> "float", mant |-> m, scale |-> e]

Digits == <<"0", "1", "2", "3", "4", "5", "6", "7", "8", "9">>

IsDigit(c) == \E i \in 1..Len(Digits) : Digits[i] = c

DigitVal(c) == (CHOOSE i \in 1..Len(Digits) : Digits[i] = c) - 1

AllDigits(s) == \A i \in 1..Len(s) : IsDigit(s[i])

RECURSIVE DigitsVal(_)
\* the natural number a sequence of decimal digits writes
DigitsVal(s) ==
    IF Len(s) = 0 THEN 0
    ELSE 10 * DigitsVal(SubSeq(s, 1, Len(s) - 1)) + DigitVal(s[Len(s)])

\* position of the first "." of s, or 0
DotPos(s) ==
    IF \E i \in 1..Len(s) : s[i] = "."
    THEN CHOOSE i \in 1..Len(s) : s[i] = "." /\ \A j \in 1..(i - 1) : s[j] # "."
    ELSE 0

\* s without a leading sign
Unsigned(s) == IF Len(s) > 0 /\ s[1] \in {"+", "-"} THEN Tail(s) ELSE s

\* whether float() accepts the (unsigned) text u: digits, digits ".", "." digits or
\* digits "." digits. Exponents, "inf", "nan", "_" and surrounding blanks are
\* outside the texts the model feeds it.
IsDecimal(u) ==
    LET d == DotPos(u) IN
    IF d = 0 THEN Len(u) > 0 /\ AllDigits(u)
    ELSE /\ Len(u) > 1
         /\ AllDigits(SubSeq(u, 1, d - 1))
         /\ AllDigits(SubSeq(u, d + 1, Len(u)))

\* Python's float(value): a float, or the exception it raises
float(value) ==
    IF value.tag = "float" THEN [exc |-> "ok", val |-> value]
    ELSE IF value.tag # "str" THEN [exc |-> "TypeError", val |-> PyNone]
    ELSE LET u == Unsigned(value.s)
             d == DotPos(u)
             neg == Len(value.s) > 0 /\ value.s[1] = "-"
             int == IF d = 0 THEN u ELSE SubSeq(u, 1, d - 1)
             frac == IF d = 0 THEN <<>> ELSE SubSeq(u, d + 1, Len(u))
             m == DigitsVal(int \o frac)
         IN IF IsDecimal(u)
            THEN [exc |-> "ok", val |-> PyFloat(IF neg THEN 0 - m ELSE m, Len(frac))]
            ELSE [exc |-> "ValueError", val |-> PyNone]

\* load_es.to_float
to_float(value) ==
    LET r == float(value) IN
    IF r.exc \in {"ValueError", "TypeError"} THEN [exc |-> "ok", val |-> PyNone]
    ELSE r

(***************************************************************************)
(* The CSV file and csv.DictReader.                                        *)
(***************************************************************************)
Min(a, b) == IF a < b THEN a ELSE b

Range(s) == {s[i] : i \in 1..Len(s)}

Pos(s, x) == CHOOSE i \in 1..Len(s) : s[i] = x

\* the six columns retrieve_from_bq selects and writes, header included
Columns ==
    <<"property_id", "rating_authority_name", "suburb", "address",
      "property_xcoord", "property_ycoord">>

CoordColumns == <<"property_xcoord", "property_ycoord">>

\* DictReader's dict for one line: header field -> cell, None (restval) for the
\* fields a short line lacks
DictRow(header, cells) ==
    [c \in Range(header) |->
        IF Pos(header, c) <= Len(cells) THEN PyStr(cells[Pos(header, c)]) ELSE PyNone]

\* csv.DictReader(f): the dicts of the file's lines, in order
DictReader(f) == [i \in 1..Len(f.rows) |-> DictRow(f.header, f.rows[i])]

(***************************************************************************)
(* load_es.generate_actions.                                               *)
(***************************************************************************)
RECURSIVE Coerce(_, _)
\* the loop over the two coordinate columns: row[col] = to_float(row[col]);
\* row[col] raises KeyError when the row has no such key
Coerce(row, cols) ==
    IF Len(cols) = 0 THEN [exc |-> "ok", row |-> row]
    ELSE IF Head(cols) \notin DOMAIN row THEN [exc |-> "KeyError", row |-> row]
    ELSE LET r == to_float(row[Head(cols)]) IN
         IF r.exc # "ok" THEN [exc |-> r.exc, row |-> row]
         ELSE Coerce([row EXCEPT ![Head(cols)] = r.val], Tail(cols))

\* the action one row yields
RowAction(index_name, row) ==
    LET c == Coerce(row, CoordColumns) IN
    IF c.exc # "ok" THEN [exc |-> c.exc]
    ELSE IF "property_id" \notin DOMAIN row THEN [exc |-> "KeyError"]
    ELSE [exc |-> "ok",
          act |-> [_index |-> index_name, _id |-> c.row["property_id"],
                   _source |-> c.row]]

RECURSIVE GenFrom(_, _, _)
GenFrom(index_name, reader, i) ==
    IF i > Len(reader) THEN [acts |-> <<>>, exc |-> "ok"]
    ELSE LET a == RowAction(index_name, reader[i]) IN
         IF a.exc # "ok" THEN [acts |-> <<>>, exc |-> a.exc]
         ELSE LET rest == GenFrom(index_name, reader, i + 1) IN
              [acts |-> <<a.act>> \o rest.acts, exc |-> rest.exc]

\* the generator, run to its end: the actions it yields and the exception that
\* ends it early ("ok" when the rows are exhausted)
generate_actions(index_name, reader) == GenFrom(index_name, reader, 1)

(***************************************************************************)
(* The engine.                                                             *)
(***************************************************************************)
IndexNames == {"valocity", "other"}

SynonymPaths == {"synonyms.txt", "old_synonyms.txt"}

Absent == [exists |-> FALSE]

EmptyDocs == [i \in {} |-> PyNone]

\* a request on the wire
Req(kind, index_name) == [kind |-> kind, index |-> index_name]

\* the settings create_index sends
settings(synonym_path) ==
    [number_of_shards |-> 1,
     number_of_replicas |-> 0,
     analysis |->
        [char_filter |->
            [remove_special |->
                [type |-> "pattern_replace", pattern |-> "[&\\-\\(\\)]",
                 replacement |-> " "]],
         filter |->
            [synonym_filter |-> [type |-> "synonym", synonyms_path |-> synonym_path]],
         analyzer |->
            [synonym_analyzer |->
                [type |-> "custom", char_filter |-> "remove_special",
                 tokenizer |-> "whitespace",
                 filter |-> <<"lowercase", "synonym_filter">>],
             addr_analyzer |->
                [type |-> "custom", tokenizer |-> "standard",
                 filter |-> <<"lowercase">>]]]]

\* the mappings create_index sends
mappings ==
    [properties |->
        [rating_authority_name |-> [type |-> "text", analyzer |-> "addr_analyzer"],
         suburb |-> [type |-> "text", analyzer |-> "addr_analyzer"],
         address |-> [type |-> "text", analyzer |-> "synonym_analyzer"],
         property_xcoord |-> [type |-> "float", index |-> FALSE],
         property_ycoord |-> [type |-> "float", index |-> FALSE]]]

\* what the engine gives an index that a bulk request creates on the fly
DynamicSettings == [number_of_shards |-> 1, number_of_replicas |-> 1]

DynamicMappings == [dynamic |-> TRUE]

\* longest _id the engine takes (512 bytes in the engine, scaled down)
MaxIdLen == 2

\* the engine refuses one item of a bulk request: here an _id that is too long
EngineRejects(action) == Len(action._id.s) > MaxIdLen

\* IndexDoc that never replaces: a second write of an _id lands under another key
IndexDoc_appends(docs, action) ==
    LET key == IF action._id \in DOMAIN docs
               THEN PyStr(action._id.s \o <<"+">>) ELSE action._id
    IN [i \in DOMAIN docs \cup {key} |-> IF i = key THEN action._source ELSE docs[i]]

\* the engine writes one document: a later write of an _id replaces the earlier
IndexDoc(docs, action) ==
    [i \in DOMAIN docs \cup {action._id} |->
        IF i = action._id THEN action._source ELSE docs[i]]

RECURSIVE ApplyChunk(_, _)
\* the engine takes one bulk request: every item it does not refuse is written,
\* into an index created on the fly when it is absent
ApplyChunk(e, chunk) ==
    IF Len(chunk) = 0 THEN e
    ELSE LET a == Head(chunk)
             ix == IF e[a._index].exists THEN e[a._index]
                   ELSE [exists |-> TRUE, settings |-> DynamicSettings,
                         mappings |-> DynamicMappings, docs |-> EmptyDocs]
         IN IF EngineRejects(a) THEN ApplyChunk(e, Tail(chunk))
            ELSE ApplyChunk(
                    [e EXCEPT ![a._index] = [ix EXCEPT !.docs = IndexDoc(ix.docs, a)]],
                    Tail(chunk))

Failed(chunk) == {i \in 1..Len(chunk) : EngineRejects(chunk[i])}

(***************************************************************************)
(* helpers.bulk with its defaults, as load_es calls it.                    *)
(***************************************************************************)
RECURSIVE SendChunks(_, _, _, _, _)
\* streaming_bulk: the actions are cut into chunks of ChunkSize; a chunk goes out
\* when the generator yields the action after it, the last one when the generator
\* is exhausted; a chunk with a refused item raises BulkIndexError once its
\* response is read (raise_on_error is left at True), and an exception of the
\* generator passes through. k actions have gone out, over index index_name.
SendChunks(e, gen, k, index_name, sent) ==
    LET n == Len(gen.acts)
        end == Min(k + ChunkSize, n)
        chunk == SubSeq(gen.acts, k + 1, end)
        flushed == end < n \/ gen.exc = "ok"
    IN IF k = n \/ ~flushed
       THEN [es |-> e, reqs |-> sent, exc |-> gen.exc, success |-> 0]
       ELSE LET e2 == ApplyChunk(e, chunk)
                out == sent \o <<Req("bulk", index_name)>>
            IN IF Failed(chunk) # {}
               THEN [es |-> e2, reqs |-> out, exc |-> "BulkIndexError", success |-> 0]
               ELSE LET rest == SendChunks(e2, gen, end, index_name, out) IN
                    [rest EXCEPT !.success = @ + Len(chunk)]

\* bulk that never sends the last, partly filled chunk
bulk_drops_last_chunk(e, gen, index_name) ==
    LET full == (Len(gen.acts) \div ChunkSize) * ChunkSize IN
    SendChunks(e, [gen EXCEPT !.acts = SubSeq(gen.acts, 1, full)], 0, index_name, <<>>)

\* helpers.bulk(client, actions)
bulk(e, gen, index_name) == SendChunks(e, gen, 0, index_name, <<>>)

(***************************************************************************)
(* The operations of main.py: each answers the engine afterwards, the      *)
(* requests it sent, the exception it ends with ("ok": it returns) and     *)
(* what it logs.                                                           *)
(***************************************************************************)
\* create_index without the exists check
create_index_overwrites(e, index_name, synonym_path) ==
    [es |-> [e EXCEPT ![index_name] =
                [exists |-> TRUE, settings |-> settings(synonym_path),
                 mappings |-> mappings, docs |-> EmptyDocs]],
     reqs |-> <<Req("create", index_name)>>,
     exc |-> "ok", log |-> "created successfully", deleted |-> 0]

create_index(e, index_name, synonym_path) ==
    IF e[index_name].exists
    THEN [es |-> e, reqs |-> <<Req("exists", index_name)>>, exc |-> "ok",
          log |-> "already exists", deleted |-> 0]
    ELSE [es |-> [e EXCEPT ![index_name] =
                    [exists |-> TRUE, settings |-> settings(synonym_path),
                     mappings |-> mappings, docs |-> EmptyDocs]],
          reqs |-> <<Req("exists", index_name), Req("create", index_name)>>,
          exc |-> "ok", log |-> "created successfully", deleted |-> 0]

\* delete_index without the exists check: the engine answers 404 for an absent index
delete_index_unguarded(e, index_name) ==
    [es |-> [e EXCEPT ![index_name] = Absent],
     reqs |-> <<Req("delete", index_name)>>,
     exc |-> IF e[index_name].exists THEN "ok" ELSE "NotFoundError",
     log |-> "deleted successfully", deleted |-> 0]

\* delete_index that only logs
delete_index_only_logs(e, index_name) ==
    [es |-> e, reqs |-> <<Req("exists", index_name)>>, exc |-> "ok",
     log |-> IF e[index_name].exists THEN "deleted successfully" ELSE "does not exist",
     deleted |-> 0]

delete_index(e, index_name) ==
    IF e[index_name].exists
    THEN [es |-> [e EXCEPT ![index_name] = Absent],
          reqs |-> <<Req("exists", index_name), Req("delete", index_name)>>,
          exc |-> "ok", log |-> "deleted successfully", deleted |-> 0]
    ELSE [es |-> e, reqs |-> <<Req("exists", index_name)>>, exc |-> "ok",
          log |-> "does not exist", deleted |-> 0]

load_es(e, index_name, f) ==
    LET r == bulk(e, generate_actions(index_name, DictReader(f)), index_name) IN
    [es |-> r.es, reqs |-> r.reqs, exc |-> r.exc,
     log |-> IF r.exc = "ok" THEN "loaded successfully" ELSE "",
     deleted |-> 0]

\* truncate_es that drops the index instead
truncate_es_drops_index(e, index_name) ==
    [es |-> [e EXCEPT ![index_name] = Absent],
     reqs |-> <<Req("delete", index_name)>>, exc |-> "ok", log |-> "Deleted",
     deleted |-> IF e[index_name].exists THEN Cardinality(DOMAIN e[index_name].docs)
                 ELSE 0]

\* delete_by_query with match_all; the engine answers 404 for an absent index
truncate_es(e, index_name) ==
    IF e[index_name].exists
    THEN [es |-> [e EXCEPT ![index_name].docs = EmptyDocs],
          reqs |-> <<Req("delete_by_query", index_name)>>, exc |-> "ok",
          log |-> "Deleted", deleted |-> Cardinality(DOMAIN e[index_name].docs)]
    ELSE [es |-> e, reqs |-> <<Req("delete_by_query", index_name)>>,
          exc |-> "NotFoundError", log |-> "", deleted |-> 0]

(***************************************************************************)
(* delete_tmp_files over a directory tree: an entry is its path (the names *)
(* from the top directory down, each a sequence of characters) and kind.   *)
(***************************************************************************)
Contains(s, sub) ==
    \E i \in 0..(Len(s) - Len(sub)) : SubSeq(s, i + 1, i + Len(sub)) = sub

\* the text delete_tmp_files looks for in a name
TmpName == <<"t", "m", "p">>

\* dir_path.iterdir(): the entries directly inside directory
iterdir(tree, directory) ==
    {x \in tree : /\ Len(x.path) = Len(directory) + 1
                  /\ SubSeq(x.path, 1, Len(directory)) = directory}

\* Unlinked without the is_file() test
Unlinked_any_kind(tree, directory) ==
    {x \in iterdir(tree, directory) : Contains(x.path[Len(x.path)], TmpName)}

\* the entries delete_tmp_files unlinks
Unlinked(tree, directory) ==
    {x \in iterdir(tree, directory) :
        x.kind = "file" /\ Contains(x.path[Len(x.path)], TmpName)}

delete_tmp_files(tree, directory) == tree \ Unlinked(tree, directory)

(***************************************************************************)
(* Inputs: CSV files over a pool of lines, engines left by earlier calls,  *)
(* directory trees.                                                        *)
(***************************************************************************)
\* an _id the engine refuses
LongId == [i \in 1..(MaxIdLen + 1) |-> "9"]

Line(id, address, x, y) == <<id, <<"A", "C">>, <<"N">>, address, x, y>>

\* a well-formed line; text in x and no y cell; a second line for id 1, its y
\* empty; an _id the engine refuses
LinePool ==
    { Line(<<"1">>, <<"1", " ", "D", "r">>, <<"1", ".", "5">>, <<"-", "2">>),
      SubSeq(Line(<<"2">>, <<"2", "-", "R", "d">>, <<"N", "/", "A">>, <<>>), 1, 5),
      Line(<<"1">>, <<"3", " ", "S", "t">>, <<"3">>, <<>>),
      Line(LongId, <<"4", " ", "A", "v">>, <<"1", ".", "5">>, <<"-", "2">>) }

CsvFile(header, lines) ==
    [header |-> header,
     rows |-> [i \in 1..Len(lines) |->
                 SubSeq(lines[i], 1, Min(Len(lines[i]), Len(header)))]]

LineSeqs(n) == UNION {[1..k -> LinePool] : k \in 0..n}

\* files under the header retrieve_from_bq writes, and files of at most one line
\* under a header that lacks property_ycoord
Files ==
    {CsvFile(Columns, ls) : ls \in LineSeqs(MaxRows)}
        \cup {CsvFile(SubSeq(Columns, 1, 5), ls) : ls \in LineSeqs(1)}

INDEX_NAME == "valocity"

NoEngine == [n \in IndexNames |-> Absent]

\* engines an earlier run or call can have left behind
PriorEngines ==
    LET made == {create_index(NoEngine, INDEX_NAME, p).es : p \in SynonymPaths}
        small == {CsvFile(Columns, ls) : ls \in LineSeqs(1)}
    IN {NoEngine} \cup made
         \cup {load_es(e, INDEX_NAME, f).es : e \in made \cup {NoEngine}, f \in small}

\* a_tmp.csv, keep.csv, tmp2.txt, TMP.log; directories tmpd and sub, a file in each
TreePool ==
    { [path |-> <<<<"a", "_", "t", "m", "p", ".", "c", "s", "v">>>>, kind |-> "file"],
      [path |-> <<<<"k", "e", "e", "p", ".", "c", "s", "v">>>>, kind |-> "file"],
      [path |-> <<<<"t", "m", "p", "2", ".", "t", "x", "t">>>>, kind |-> "file"],
      [path |-> <<<<"T", "M", "P", ".", "l", "o", "g">>>>, kind |-> "file"],
      [path |-> <<<<"t", "m", "p", "d">>>>, kind |-> "dir"],
      [path |-> <<<<"s", "u", "b">>>>, kind |-> "dir"],
      [path |-> <<<<"t", "m", "p", "d">>, <<"x", ".", "t", "m", "p">>>>, kind |-> "file"],
      [path |-> <<<<"s", "u", "b">>, <<"t", "m", "p">>>>, kind |-> "file"] }

\* the top directory, and the directories of a tree
TopDir == <<>>

Dirs(tree) == {TopDir} \cup {x.path : x \in {y \in tree : y.kind = "dir"}}

\* every entry below the top level lies in a directory of the tree
Trees ==
    {t \in SUBSET TreePool :
        \A x \in t : SubSeq(x.path, 1, Len(x.path) - 1) \in Dirs(t)}

NoCall ==
    [op |-> "none", index |-> "", exc |-> "ok", log |-> "", deleted |-> 0,
     again |-> FALSE, dir |-> TopDir]

\* the record of a call; deleted: the count truncate_es reports, or the number of
\* "Deleted:" lines of delete_tmp_files; again: it repeats the call before it (same function, same
\* index)
Call(op, index_name, r) ==
    [op |-> op, index |-> index_name, exc |-> r.exc, log |-> r.log,
     deleted |-> r.deleted, again |-> last.op = op /\ last.index = index_name,
     dir |-> TopDir]

(***************************************************************************)
(* The __main__ script, statement by statement.                            *)
(***************************************************************************)
Init ==
    /\ es \in PriorEngines
    /\ file \in Files
    /\ fs = {}
    /\ pc = "start"
    /\ runs = 1
    /\ reqs = <<>>
    /\ last = NoCall

\* Ping whose answer is not looked at
Ping_unchecked ==
    /\ pc = "start"
    /\ \E up \in BOOLEAN :
        /\ pc' = "delete"
        /\ last' = [NoCall EXCEPT !.op = "ping",
                                  !.exc = IF up THEN "ok" ELSE "ValueError"]
    /\ reqs' = reqs \o <<Req("ping", "")>>
    /\ UNCHANGED <<es, file, fs, runs>>

\* es.ping(), and the raise when it answers False
Ping ==
    /\ pc = "start"
    /\ \E up \in BOOLEAN :
        /\ pc' = IF up THEN "delete" ELSE "raised"
        /\ last' = [NoCall EXCEPT !.op = "ping",
                                  !.exc = IF up THEN "ok" ELSE "ValueError"]
    /\ reqs' = reqs \o <<Req("ping", "")>>
    /\ UNCHANGED <<es, file, fs, runs>>

\* one call of the script on INDEX_NAME; an exception ends the script
Step(op, r, to) ==
    /\ es' = r.es
    /\ reqs' = reqs \o r.reqs
    /\ last' = Call(op, INDEX_NAME, r)
    /\ pc' = IF r.exc = "ok" THEN to ELSE "raised"
    /\ UNCHANGED <<file, fs, runs>>

MainDelete == pc = "delete" /\ Step("delete_index", delete_index(es, INDEX_NAME), "create")

MainCreate ==
    pc = "create"
        /\ Step("create_index", create_index(es, INDEX_NAME, "synonyms.txt"), "load")

MainLoad == pc = "load" /\ Step("load_es", load_es(es, INDEX_NAME, file), "done")

\* the script is started again
Rerun ==
    /\ pc \in {"done", "raised"}
    /\ runs < MaxRuns
    /\ runs' = runs + 1
    /\ pc' = "start"
    /\ reqs' = <<>>
    /\ last' = NoCall
    /\ UNCHANGED <<es, file, fs>>

Next == Ping \/ MainDelete \/ MainCreate \/ MainLoad \/ Rerun

Spec == Init /\ [][Next]_vars

(***************************************************************************)
(* The functions called one by one, in any order, on any index.            *)
(***************************************************************************)
InitOps ==
    /\ es = NoEngine
    /\ file \in Files
    /\ fs = {}
    /\ pc = "lib"
    /\ runs = 0
    /\ reqs = <<>>
    /\ last = NoCall

Does(op, index_name, r) ==
    /\ pc = "lib"
    /\ es' = r.es
    /\ reqs' = r.reqs
    /\ last' = Call(op, index_name, r)
    /\ UNCHANGED <<file, fs, pc, runs>>

CreateIndex ==
    \E n \in IndexNames, p \in SynonymPaths :
        Does("create_index", n, create_index(es, n, p))

DeleteIndex == \E n \in IndexNames : Does("delete_index", n, delete_index(es, n))

LoadEs == \E n \in IndexNames : Does("load_es", n, load_es(es, n, file))

TruncateEs == \E n \in IndexNames : Does("truncate_es", n, truncate_es(es, n))

NextOps == CreateIndex \/ DeleteIndex \/ LoadEs \/ TruncateEs

SpecOps == InitOps /\ [][NextOps]_vars

(***************************************************************************)
(* delete_tmp_files on a directory of a tree.                              *)
(***************************************************************************)
InitFs ==
    /\ es = NoEngine
    /\ file = CsvFile(Columns, <<>>)
    /\ fs \in Trees
    /\ pc = "fs"
    /\ runs = 0
    /\ reqs = <<>>
    /\ last = NoCall

DeleteTmpFiles ==
    /\ pc = "fs"
    /\ \E d \in Dirs(fs) :
        /\ fs' = delete_tmp_files(fs, d)
        /\ last' = [NoCall EXCEPT !.op = "delete_tmp_files", !.log = "Done.",
                                  !.dir = d,
                                  !.deleted = Cardinality(Unlinked(fs, d))]
    /\ UNCHANGED <<es, file, pc, runs, reqs>>

NextFs == DeleteTmpFiles

SpecFs == InitFs /\ [][NextFs]_vars

(***************************************************************************)
(* Properties.                                                             *)
(***************************************************************************)
LineId(f, i) == PyStr(f.rows[i][1])

FileIds(f) == {LineId(f, i) : i \in 1..Len(f.rows)}

UniqueIds(f) ==
    \A i, j \in 1..Len(f.rows) : i # j => f.rows[i][1] # f.rows[j][1]

HasRejected(f) == \E i \in 1..Len(f.rows) : Len(f.rows[i][1]) > MaxIdLen

\* document source src carries the id and the text cells of line i of f
IsLineDoc(f, i, src) ==
    /\ src["property_id"] = PyStr(f.rows[i][1])
    /\ src["rating_authority_name"] = PyStr(f.rows[i][2])
    /\ src["suburb"] = PyStr(f.rows[i][3])
    /\ src["address"] = PyStr(f.rows[i][4])

\* C1: create_index on a name whose index exists returns after logging, sends no
\* creation request and leaves every index (settings, mappings, documents) as it was
C1_CreateExistingUnchanged ==
    [][(last'.op = "create_index" /\ es[last'.index].exists)
        => /\ es' = es
           /\ Req("create", last'.index) \notin Range(reqs')
           /\ last'.exc = "ok"
           /\ last'.log = "already exists"]_vars

\* create_index has just met an index made on the fly by a bulk load, documents in it
C1_Witness ==
    /\ last.op = "create_index"
    /\ last.log = "already exists"
    /\ es[last.index].settings = DynamicSettings
    /\ DOMAIN es[last.index].docs # {}

\* C2: delete_index returns normally from any state, the index is absent afterwards,
\* the other indices are untouched, a delete request goes out exactly when the index
\* existed, and a second delete_index changes nothing
C2_DeleteIdempotent ==
    [][last'.op = "delete_index"
        => /\ last'.exc = "ok"
           /\ ~es'[last'.index].exists
           /\ \A m \in IndexNames \ {last'.index} : es'[m] = es[m]
           /\ Req("delete", last'.index) \in Range(reqs') <=> es[last'.index].exists
           /\ last'.again => es' = es]_vars

\* a second delete_index in a row, with another index still there
C2_Witness ==
    /\ last.op = "delete_index"
    /\ last.again
    /\ last.log = "does not exist"
    /\ \E m \in IndexNames : es[m].exists

\* C3: a coordinate that is empty, not a number or missing becomes None, its row is
\* still emitted, and load_es never raises because of it
C3_BadCoordinateNeverRaises ==
    last.op = "load_es"
        => LET g == generate_actions(last.index, DictReader(file)) IN
           /\ last.exc \notin {"KeyError", "ValueError", "TypeError"}
           /\ g.exc = "ok"
           /\ Len(g.acts) = Len(file.rows)
           /\ \A i \in 1..Len(file.rows) : \A c \in Range(CoordColumns) :
                (\/ c \notin Range(file.header)
                 \/ Pos(file.header, c) > Len(file.rows[i])
                 \/ file.rows[i][Pos(file.header, c)] \in {<<>>, <<"N", "/", "A">>})
                    => g.acts[i]._source[c] = PyNone

\* C4: loading the same file into the same index a second time leaves every index
\* as the first load left it
C4_ReloadIdempotent ==
    [][(last'.op = "load_es" /\ last'.again) => es' = es]_vars

\* a second load in a row has returned, of a file with two lines for one id
C4_Witness ==
    /\ last.op = "load_es"
    /\ last.again
    /\ last.exc = "ok"
    /\ ~UniqueIds(file)
    /\ DOMAIN es[last.index].docs = FileIds(file)

\* C5: when the script has run to its end, the index holds a document under the
\* property_id of every line of the file and under no other id, every document
\* carries a line of the file with that id, and with unique ids there is one
\* document per line
C5_Rebuilt ==
    pc = "done"
        => /\ es[INDEX_NAME].exists
           /\ LET d == es[INDEX_NAME].docs IN
              /\ DOMAIN d = FileIds(file)
              /\ \A k \in DOMAIN d :
                    \E i \in 1..Len(file.rows) :
                        LineId(file, i) = k /\ IsLineDoc(file, i, d[k])
              /\ UniqueIds(file)
                    => /\ Cardinality(DOMAIN d) = Len(file.rows)
                       /\ \A i \in 1..Len(file.rows) :
                            IsLineDoc(file, i, d[LineId(file, i)])

\* the script has ended on a file of two lines with different ids, started on an
\* engine that held the index
C5_Witness ==
    /\ pc = "done"
    /\ runs = 2
    /\ UniqueIds(file)
    /\ Len(file.rows) = 2
    /\ Cardinality(DOMAIN es[INDEX_NAME].docs) = 2

\* C6: truncate_es of an existing index leaves it in place with its settings and
\* mappings, empties it, reports as deleted the number of documents it held and
\* touches no other index; a load into it right afterwards runs under the same
\* settings and mappings and, when it returns, leaves the documents of the file
C6_TruncateKeepsIndex ==
    [][/\ (last'.op = "truncate_es" /\ es[last'.index].exists)
            => /\ last'.exc = "ok"
               /\ es'[last'.index].exists
               /\ es'[last'.index].settings = es[last'.index].settings
               /\ es'[last'.index].mappings = es[last'.index].mappings
               /\ DOMAIN es'[last'.index].docs = {}
               /\ last'.deleted = Cardinality(DOMAIN es[last'.index].docs)
               /\ \A m \in IndexNames \ {last'.index} : es'[m] = es[m]
       /\ (/\ last.op = "truncate_es" /\ last.exc = "ok"
           /\ last'.op = "load_es" /\ last'.index = last.index)
            => /\ es'[last.index].settings = es[last.index].settings
               /\ es'[last.index].mappings = es[last.index].mappings
               /\ last'.exc = "ok" => DOMAIN es'[last.index].docs = FileIds(file)]_vars

\* truncate_es has emptied an index made by create_index that held two documents,
\* and the file loads into it
C6_Witness ==
    /\ last.op = "truncate_es"
    /\ last.deleted = 2
    /\ es[last.index].exists
    /\ es[last.index].mappings = mappings
    /\ DOMAIN es[last.index].docs = {}
    /\ load_es(es, last.index, file).exc = "ok"

\* C7: a document the engine refuses does not abort the load: load_es returns
\* normally and every other document of the file is indexed
C7_RejectionDoesNotAbort ==
    (last.op = "load_es" /\ file.header = Columns /\ HasRejected(file))
        => /\ last.exc = "ok"
           /\ \A i \in 1..Len(file.rows) :
                Len(file.rows[i][1]) <= MaxIdLen
                    => LineId(file, i) \in DOMAIN es[last.index].docs

\* C8: delete_tmp_files removes the files directly inside the directory whose name
\* holds "tmp", and nothing else: no directory, no file below, no other file
C8_RemovesExactlyTmpFiles ==
    [][last'.op = "delete_tmp_files"
        => LET d == last'.dir
               Inside(x) == /\ Len(x.path) = Len(d) + 1
                            /\ \A i \in 1..Len(d) : x.path[i] = d[i]
               Tmp(name) == \E i \in 1..(Len(name) - 2) :
                                name[i] = "t" /\ name[i + 1] = "m" /\ name[i + 2] = "p"
           IN /\ fs' \subseteq fs
              /\ last'.deleted = Cardinality(fs \ fs')
              /\ \A x \in fs :
                    x \notin fs' <=> (x.kind = "file" /\ Inside(x) /\ Tmp(x.path[Len(x.path)]))]_vars

\* delete_tmp_files on the top directory has removed two files: keep.csv is there,
\* so are the directory tmpd and the file x.tmp in it, a_tmp.csv and tmp2.txt are not
C8_Witness ==
    /\ last.op = "delete_tmp_files"
    /\ last.dir = TopDir
    /\ last.deleted = 2
    /\ [path |-> <<<<"k", "e", "e", "p", ".", "c", "s", "v">>>>, kind |-> "file"] \in fs
    /\ [path |-> <<<<"t", "m", "p", "d">>>>, kind |-> "dir"] \in fs
    /\ [path |-> <<<<"t", "m", "p", "d">>, <<"x", ".", "t", "m", "p">>>>, kind |-> "file"] \in fs
    /\ [path |-> <<<<"a", "_", "t", "m", "p", ".", "c", "s", "v">>>>, kind |-> "file"] \notin fs
    /\ [path |-> <<<<"t", "m", "p", "2", ".", "t", "x", "t">>>>, kind |-> "file"] \notin fs

\* C9: the script pings once, first; nothing is sent before it; a failed ping ends
\* the script with no other request sent and the engine as it was
C9_PingOnceFirst ==
    [][/\ pc = "start" => reqs = <<>>
       /\ \A i \in 1..Len(reqs') : reqs'[i].kind = "ping" <=> i = 1
       /\ last'.op = "ping" => es' = es
       /\ (last'.op = "ping" /\ last'.exc = "ValueError")
            => pc' = "raised" /\ reqs' = <<Req("ping", "")>>
       /\ (last.op = "ping" /\ last.exc = "ValueError")
            => es' = es /\ reqs' = <<>> /\ pc' = "start"
       /\ (Len(reqs') > 1) => (reqs[1] = Req("ping", "") /\ last.exc = "ok")]_vars

\* the ping failed with the index in place: the script has ended
C9_Witness ==
    /\ pc = "raised"
    /\ last.op = "ping"
    /\ last.exc = "ValueError"
    /\ es[INDEX_NAME].exists
    /\ reqs = <<Req("ping", "")>>

\* C10: in the script create_index always creates the index, so whenever load_es is
\* about to run, has run or the script has ended, the index exists with the settings
\* and mappings of create_index, whatever it was before, in every run
C10_EntryOrderGivesSchema ==
    /\ last.op = "create_index"
        => /\ last.log = "created successfully"
           /\ Req("create", INDEX_NAME) \in Range(reqs)
    /\ (pc \in {"load", "done"} \/ last.op = "load_es")
        => /\ es[INDEX_NAME].exists
           /\ es[INDEX_NAME].settings = settings("synonyms.txt")
           /\ es[INDEX_NAME].mappings = mappings

\* the second run has ended
C10_Witness ==
    /\ pc = "done"
    /\ runs = 2
    /\ last.op = "load_es"
    /\ DOMAIN es[INDEX_NAME].docs # {}

====
